---- MODULE Spec2Model ----
(***************************************************************************)
(* Easy Equities Advisor Bot: the chat intake (handleSend,                 *)
(* generateBotResponse, generatePortfolio of the chat page), the portfolio *)
(* route and the allocation engine (generateAdvancedPortfolio).            *)
(*                                                                         *)
(* Strings are sequences of one-character strings.  Amounts are fixed      *)
(* point, in hundredths.  Allocations are exact, in units of 1/10000;      *)
(* a normalized allocation is the fraction [num, den].                     *)
(***************************************************************************)
EXTENDS Integers, Sequences, FiniteSets, TLC

VARIABLES
    input,              \* useState input: the text in the input box
    messages,           \* useState messages: the transcript
    userProfile,        \* useState userProfile: the partially filled profile
    generatedPortfolio, \* useState generatedPortfolio ({} is null)
    marketAnalysis,     \* useState marketAnalysis ({} is null)
    portfolioCall,      \* the generatePortfolio call of the conversation ({} when none)
    engineCalls,        \* the engine invocations made by the portfolio route
    sends,              \* number of handleSend calls that passed the trim test
    eIn,                \* harness: the request or text under test
    eOut                \* harness: its result ({} before the call)

vars == <<input, messages, userProfile, generatedPortfolio, marketAnalysis,
          portfolioCall, engineCalls, sends, eIn, eOut>>

(***************************************************************************)
(* Bounds of the model.                                                    *)
(***************************************************************************)
MaxSends == 8
MaxAge == 120
MaxTextLen == 3

(***************************************************************************)
(* Strings.                                                                *)
(***************************************************************************)
Digits == <<"0", "1", "2", "3", "4", "5", "6", "7", "8", "9">>

IsDigit(c) == \E i \in 1..10 : Digits[i] = c

DigitVal(c) == (CHOOSE i \in 1..10 : Digits[i] = c) - 1

UpperCase == <<"A", "B", "C", "D", "E", "F", "G", "H", "I", "J", "K", "L", "M",
               "N", "O", "P", "Q", "R", "S", "T", "U", "V", "W", "X", "Y", "Z">>

LowerCase == <<"a", "b", "c", "d", "e", "f", "g", "h", "i", "j", "k", "l", "m",
               "n", "o", "p", "q", "r", "s", "t", "u", "v", "w", "x", "y", "z">>

\* String.prototype.toLowerCase
LowerChar(c) ==
    IF \E i \in 1..26 : UpperCase[i] = c
    THEN LowerCase[CHOOSE i \in 1..26 : UpperCase[i] = c]
    ELSE c

ToLowerCase(s) == [i \in 1..Len(s) |-> LowerChar(s[i])]

\* String.prototype.trim
RECURSIVE TrimLeft(_)
TrimLeft(s) == IF s # <<>> /\ Head(s) = " " THEN TrimLeft(Tail(s)) ELSE s

RECURSIVE TrimRight(_)
TrimRight(s) ==
    IF s # <<>> /\ s[Len(s)] = " " THEN TrimRight(SubSeq(s, 1, Len(s) - 1)) ELSE s

Trim(s) == TrimRight(TrimLeft(s))

\* input.replace(/[^0-9]/g, "")
KeepDigits(s) == SelectSeq(s, IsDigit)

IsDigitOrDot(c) == IsDigit(c) \/ c = "."

\* input.replace(/[^0-9.]/g, "")
KeepDigitsAndDots(s) == SelectSeq(s, IsDigitOrDot)

\* the longest prefix of s made of digits
DigitPrefix(s) ==
    LET stops == {i \in 1..Len(s) : ~IsDigit(s[i])}
    IN  IF stops = {} THEN s
        ELSE SubSeq(s, 1, (CHOOSE i \in stops : \A j \in stops : i <= j) - 1)

RECURSIVE DigitsToNat(_)
DigitsToNat(s) ==
    IF s = <<>> THEN 0 ELSE 10 * DigitsToNat(SubSeq(s, 1, Len(s) - 1)) + DigitVal(s[Len(s)])

\* NaN, and undefined for an optional number
NaN == -1

\* Infinity: greater than every amount of the model
Infinity == 2147483647

\* parseInt of a string of digits: NaN for the empty string.  An integer of
\* more than nine digits is beyond the integers of the model and is carried as
\* Infinity: every use compares the result with a bound far below.
ParseInt(s) ==
    LET digits  == DigitPrefix(s)
        nonzero == {i \in 1..Len(digits) : digits[i] # "0"}
        first   == CHOOSE i \in nonzero : \A j \in nonzero : i <= j
    IN  IF digits = <<>> THEN NaN
        ELSE IF nonzero = {} THEN 0
        ELSE IF Len(digits) - first + 1 > 9 THEN Infinity
        ELSE DigitsToNat(SubSeq(digits, first, Len(digits)))

\* the decimal literal Number.parseFloat reads from a string of digits and
\* dots: the longest prefix of the form digits, digits.digits or .digits (ip
\* and fp both empty when there is none)
FloatLiteral(s) ==
    LET ip   == DigitPrefix(s)
        rest == SubSeq(s, Len(ip) + 1, Len(s))
        fp   == IF rest # <<>> /\ Head(rest) = "." THEN DigitPrefix(Tail(rest)) ELSE <<>>
    IN  [ip |-> ip, fp |-> fp]

IsNaNLiteral(l) == l.ip = <<>> /\ l.fp = <<>>

\* the value of the literal is greater than 0 (fewer than 324 fraction digits:
\* no underflow)
IsPositiveLiteral(l) ==
    \/ \E i \in 1..Len(l.ip) : l.ip[i] # "0"
    \/ \E i \in 1..Len(l.fp) : l.fp[i] # "0"

\* the value of the literal is beyond the largest double, about 1.8e308, and
\* is read as Infinity
IsInfiniteLiteral(l) ==
    LET nonzero == {i \in 1..Len(l.ip) : l.ip[i] # "0"}
        first   == CHOOSE i \in nonzero : \A j \in nonzero : i <= j
        size    == IF nonzero = {} THEN 0 ELSE Len(l.ip) - first + 1
    IN  \/ size > 309
        \/ size = 309 /\ (l.ip[first] # "1" \/ l.ip[first + 1] \in {"8", "9"})

\* Number.parseFloat of a string of digits and dots, in hundredths: NaN when
\* there is no literal.  Fraction digits after the second are dropped.
ParseFloat(s) ==
    LET l  == FloatLiteral(s)
        f2 == SubSeq(l.fp \o <<"0", "0">>, 1, 2)
    IN  IF IsNaNLiteral(l) THEN NaN
        ELSE IF IsInfiniteLiteral(l) THEN Infinity
        ELSE 100 * DigitsToNat(l.ip) + DigitsToNat(f2)

RECURSIVE NatToDigits(_)
NatToDigits(n) ==
    IF n < 10 THEN <<Digits[n + 1]>> ELSE NatToDigits(n \div 10) \o <<Digits[(n % 10) + 1]>>

\* Number.prototype.toString of a positive amount in hundredths
NumberToString(v) ==
    LET ip == NatToDigits(v \div 100)
        f  == v % 100
    IN  IF f = 0 THEN ip
        ELSE IF f % 10 = 0 THEN ip \o <<".">> \o <<Digits[(f \div 10) + 1]>>
        ELSE ip \o <<".">> \o <<Digits[(f \div 10) + 1], Digits[(f % 10) + 1]>>

\* Number(x) of a profile field: NaN for undefined (the unset field)
ToNumber(s) == IF s = <<>> THEN NaN ELSE ParseFloat(s)

(***************************************************************************)
(* Profile validators.                                                     *)
(***************************************************************************)
validateTimeHorizonLoose(s) ==
    LET years == ParseInt(KeepDigits(ToLowerCase(s)))
    IN  IF years # NaN /\ years > 0 /\ years <= 500 THEN years ELSE 0

\* null is 0: every caller tests the result for truthiness
validateTimeHorizon(s) ==
    LET years == ParseInt(KeepDigits(ToLowerCase(s)))
    IN  IF years # NaN /\ years > 0 /\ years <= 50 THEN years ELSE 0

RiskLevels == {<<"l", "o", "w">>, <<"m", "e", "d", "i", "u", "m">>, <<"h", "i", "g", "h">>}

validateRiskToleranceByFirstWord(s) ==
    LET risk == ToLowerCase(s)
    IN  IF \E level \in RiskLevels :
              Len(risk) >= Len(level) /\ SubSeq(risk, 1, Len(level)) = level
        THEN CHOOSE level \in RiskLevels :
                 Len(risk) >= Len(level) /\ SubSeq(risk, 1, Len(level)) = level
        ELSE <<>>

\* null is the empty string
validateRiskTolerance(s) ==
    LET risk == ToLowerCase(s)
    IN  IF risk \in RiskLevels THEN risk ELSE <<>>

\* null is 0.  !isNaN(amount) && amount > 0 is decided on the literal; a
\* positive amount below one hundredth is carried as one hundredth.
validateAmount(s) ==
    LET l      == FloatLiteral(KeepDigitsAndDots(s))
        amount == ParseFloat(KeepDigitsAndDots(s))
    IN  IF ~IsNaNLiteral(l) /\ IsPositiveLiteral(l)
        THEN IF amount = 0 THEN 1 ELSE amount
        ELSE 0

(***************************************************************************)
(* Market data service.                                                    *)
(***************************************************************************)
OnceOff == <<"o", "n", "c", "e", "-", "o", "f", "f">>

Monthly == <<"m", "o", "n", "t", "h", "l", "y">>

ETF_SYMBOLS ==
    {"Satrix Top 40 ETF", "CoreShares Total World Stock ETF", "Satrix SA Bond ETF",
     "NewGold ETF", "Satrix MSCI World ETF",
     "Sygnia Itrix 4th Industrial Revolution Global Equity ETF",
     "CoreShares S&P South Africa Dividend Aristocrats ETF", "Ashburton MidCap ETF",
     "Satrix Property ETF", "Sygnia FAANG Plus Equity ETF",
     "CoreShares S&P Global Dividend Aristocrats ETF",
     "Satrix MSCI Emerging Markets ETF", "Satrix Fini ETF"}

getETFDataDroppingFailed(failed) ==
    [name \in ETF_SYMBOLS \ failed |-> [description |-> name, hasQuote |-> TRUE]]

\* getETFData: failed is the set of instruments whose quote or historical lookup
\* threw; hasQuote tells whether price, change, volume and return are present
getETFData(failed) ==
    [name \in ETF_SYMBOLS |-> [description |-> name, hasQuote |-> name \notin failed]]

\* generateMarketDescription: the sentence for the index return, followed by
\* the clause for the volatility index when there is one
generateMarketDescription(spReturn, vix) ==
    <<IF spReturn > 200 THEN "Markets are showing strong bullish momentum"
      ELSE IF spReturn > 0
           THEN "Markets are slightly positive with moderate growth potential"
      ELSE IF spReturn > -200
           THEN "Markets are showing slight weakness but remain stable"
      ELSE "Markets are experiencing significant downward pressure">>
    \o (IF vix # NaN /\ vix # 0
        THEN <<IF vix < 15 THEN ", with low volatility indicating stable conditions"
               ELSE IF vix < 25 THEN ", with moderate market volatility"
               ELSE ", with high volatility suggesting increased uncertainty">>
        ELSE <<>>)

\* generateMarketFactors: the change of the first factor is spReturn, which
\* the text quotes with two decimals
generateMarketFactors(spReturn, vix) ==
    <<[factor |-> "S&P 500 Performance",
       impact |-> IF spReturn > 0 THEN "Positive market sentiment"
                  ELSE "Negative market sentiment",
       change |-> spReturn]>>
    \o (IF vix # NaN /\ vix # 0
        THEN <<[factor |-> "Market Volatility (VIX)",
                impact |-> IF vix < 20 THEN "Low risk environment"
                           ELSE IF vix < 30 THEN "Moderate market uncertainty"
                           ELSE "High market uncertainty",
                change |-> 0]>>
        ELSE <<>>)
    \o <<[factor |-> "Portfolio Strategy",
          impact |-> IF spReturn > 0 THEN "Favoring growth-oriented global ETFs"
                     ELSE "Emphasizing defensive local market exposure",
          change |-> 0]>>

getMarketConditionsCautiousFallback(q) ==
    IF q.ok
    THEN [globalOutlook   |-> IF q.spReturn > 0 THEN "positive" ELSE "negative",
          spReturn        |-> q.spReturn,
          volatilityIndex |-> q.vix,
          description     |-> generateMarketDescription(q.spReturn, q.vix),
          factors         |-> generateMarketFactors(q.spReturn, q.vix)]
    ELSE [globalOutlook   |-> "negative",
          spReturn        |-> 0,
          volatilityIndex |-> NaN,
          description     |-> <<"Market data unavailable">>,
          factors         |-> <<>>]

\* getMarketConditions: q is the outcome of the two index quotes, q.ok = FALSE
\* when either threw; spReturn in hundredths of a percent
getMarketConditions(q) ==
    IF q.ok
    THEN [globalOutlook   |-> IF q.spReturn > 0 THEN "positive" ELSE "negative",
          spReturn        |-> q.spReturn,
          volatilityIndex |-> q.vix,
          description     |-> generateMarketDescription(q.spReturn, q.vix),
          factors         |-> generateMarketFactors(q.spReturn, q.vix)]
    ELSE [globalOutlook   |-> "positive",
          spReturn        |-> 0,
          volatilityIndex |-> NaN,
          description     |-> <<"Market data unavailable">>,
          factors         |-> <<>>]

(***************************************************************************)
(* Allocation engine (generateAdvancedPortfolio).  Allocations in 1/10000. *)
(***************************************************************************)
Min(a, b) == IF a < b THEN a ELSE b

Max(a, b) == IF a > b THEN a ELSE b

BondETF == "Satrix SA Bond ETF"

EquityAllocationUnclamped(age) == (110 - age) * 100

EquityAllocationFromHundred(age) == Min(9000, Max(1000, (100 - age) * 100))

\* Math.min(0.9, Math.max(0.1, (110 - age) / 100))
EquityAllocation(age) == Min(9000, Max(1000, (110 - age) * 100))

\* marketConditions.volatilityIndex && marketConditions.volatilityIndex > 25
HighVolatility(mc) ==
    mc.volatilityIndex # NaN /\ mc.volatilityIndex # 0 /\ mc.volatilityIndex > 25

\* bondAllocation after the income adjustment
BondAllocation(up) ==
    LET base == 10000 - EquityAllocation(up.age)
    IN  IF up.incomeNeeds THEN Min(4000, base + 1000) ELSE base

AdjustedEquityAllocationKeepingShifts(up, mc) ==
    LET riskShift == (up.riskScore - 5) * 200
        adjusted  == EquityAllocation(up.age) + riskShift
    IN  IF HighVolatility(mc) THEN (adjusted * 9) \div 10 ELSE adjusted

\* adjustedEquityAllocation after the risk, volatility and income adjustments
AdjustedEquityAllocation(up, mc) ==
    LET riskShift == (up.riskScore - 5) * 200
        adjusted  == EquityAllocation(up.age) + riskShift
        dampened  == IF HighVolatility(mc) THEN (adjusted * 9) \div 10 ELSE adjusted
    IN  IF up.incomeNeeds THEN 10000 - BondAllocation(up) ELSE dampened

\* one month of the projection: m is paid at the start of the month and the
\* value grows by r = 0.07 / 12 = 7/1200; m and the value in hundredths, the
\* month rounded down to a hundredth
MonthOfGrowth(value, m) == (value + m) + ((value + m) * 7) \div 1200

QuarterOfGrowth(value, m) == MonthOfGrowth(MonthOfGrowth(MonthOfGrowth(value, m), m), m)

YearOfGrowth(value, m) ==
    QuarterOfGrowth(QuarterOfGrowth(QuarterOfGrowth(QuarterOfGrowth(value, m), m), m), m)

\* the value after n = 12 * years months: m * ((1 + r)^n - 1) / r * (1 + r);
\* the value of the years before is computed first
RECURSIVE FutureValue(_, _)
FutureValue(m, years) ==
    IF years = 0 THEN 0
    ELSE LET before == FutureValue(m, years - 1)
         IN  IF before = 0 THEN YearOfGrowth(0, m) ELSE YearOfGrowth(before, m)

MonthlyProjectionIgnoringType(up) ==
    IF up.monthlyAmount # NaN /\ up.monthlyAmount # 0 /\ up.investmentHorizon # 0
    THEN {[monthlyAmount |-> up.monthlyAmount,
           years         |-> up.investmentHorizon,
           FV            |-> (FutureValue(up.monthlyAmount, up.investmentHorizon)
                                + 50) \div 100]}
    ELSE {}

\* monthlyProjection ({} is null): the amount per month, the years and the
\* projected value in whole rands that the sentence is made of
MonthlyProjection(up) ==
    IF /\ up.investmentType = Monthly
       /\ up.monthlyAmount # NaN /\ up.monthlyAmount # 0
       /\ up.investmentHorizon # 0
    THEN {[monthlyAmount |-> up.monthlyAmount,
           years         |-> up.investmentHorizon,
           FV            |-> (FutureValue(up.monthlyAmount, up.investmentHorizon)
                                + 50) \div 100]}
    ELSE {}

\* rationale: each line with the figure it quotes
Rationale(up, mc) ==
    <<[line |-> "Age-based equity allocation", value |-> EquityAllocation(up.age)],
      [line |-> "Risk adjustment", value |-> (up.riskScore - 5) * 200],
      [line |-> "Investment horizon", value |-> up.investmentHorizon]>>
    \o (IF up.incomeNeeds
        THEN <<[line |-> "Income requirement", value |-> 0]>> ELSE <<>>)
    \o (IF HighVolatility(mc)
        THEN <<[line |-> "Market volatility adjustment", value |-> mc.volatilityIndex]>>
        ELSE <<>>)
    \o (IF MonthlyProjection(up) # {}
        THEN <<[line |-> "Projection includes monthly compounding", value |-> 0]>>
        ELSE <<>>)
    \o <<[line  |-> IF mc.globalOutlook = "positive"
                    THEN "Global market outlook is positive"
                    ELSE IF up.incomeNeeds THEN "Market outlook is cautious"
                         ELSE "Global market outlook is cautious",
          value |-> 0],
         [line |-> "Fixed income allocation", value |-> BondAllocation(up)]>>

SelectBasketOutsideCatalog(outlook, incomeNeeds) ==
    IF outlook = "positive"
    THEN IF incomeNeeds
         THEN {[name |-> "CoreShares S&P Global Dividend Aristocrats ETF", tenths |-> 4],
               [name |-> "Satrix MSCI World ETF", tenths |-> 3],
               [name |-> "CoreShares S&P South Africa Dividend Aristocrats ETF", tenths |-> 3]}
         ELSE {[name |-> "Satrix MSCI World ETF", tenths |-> 6],
               [name |-> "Satrix MSCI Emerging Markets ETF", tenths |-> 4]}
    ELSE IF incomeNeeds
         THEN {[name |-> "CoreShares S&P South Africa Dividend Aristocrats ETF", tenths |-> 5],
               [name |-> "Satrix Property ETF", tenths |-> 3],
               [name |-> "Satrix Top 40 ETF", tenths |-> 2]}
         ELSE {[name |-> "Satrix Top 40", tenths |-> 7],
               [name |-> "CoreShares S&P South Africa Dividend Aristocrats ETF", tenths |-> 3]}

SelectBasketSwapped(outlook, incomeNeeds) ==
    IF outlook = "positive"
    THEN IF incomeNeeds
         THEN {[name |-> "CoreShares S&P Global Dividend Aristocrats ETF", tenths |-> 4],
               [name |-> "Satrix MSCI World ETF", tenths |-> 3],
               [name |-> "CoreShares S&P South Africa Dividend Aristocrats ETF", tenths |-> 3]}
         ELSE {[name |-> "Satrix MSCI World ETF", tenths |-> 4],
               [name |-> "Satrix MSCI Emerging Markets ETF", tenths |-> 6]}
    ELSE IF incomeNeeds
         THEN {[name |-> "CoreShares S&P South Africa Dividend Aristocrats ETF", tenths |-> 5],
               [name |-> "Satrix Property ETF", tenths |-> 3],
               [name |-> "Satrix Top 40 ETF", tenths |-> 2]}
         ELSE {[name |-> "Satrix Top 40 ETF", tenths |-> 7],
               [name |-> "CoreShares S&P South Africa Dividend Aristocrats ETF", tenths |-> 3]}

\* the equity instruments of the branch taken, each with its factor in tenths
SelectBasket(outlook, incomeNeeds) ==
    IF outlook = "positive"
    THEN IF incomeNeeds
         THEN {[name |-> "CoreShares S&P Global Dividend Aristocrats ETF", tenths |-> 4],
               [name |-> "Satrix MSCI World ETF", tenths |-> 3],
               [name |-> "CoreShares S&P South Africa Dividend Aristocrats ETF", tenths |-> 3]}
         ELSE {[name |-> "Satrix MSCI World ETF", tenths |-> 6],
               [name |-> "Satrix MSCI Emerging Markets ETF", tenths |-> 4]}
    ELSE IF incomeNeeds
         THEN {[name |-> "CoreShares S&P South Africa Dividend Aristocrats ETF", tenths |-> 5],
               [name |-> "Satrix Property ETF", tenths |-> 3],
               [name |-> "Satrix Top 40 ETF", tenths |-> 2]}
         ELSE {[name |-> "Satrix Top 40 ETF", tenths |-> 7],
               [name |-> "CoreShares S&P South Africa Dividend Aristocrats ETF", tenths |-> 3]}

\* the portfolio object before normalization: instrument -> raw allocation
RawPortfolio(up, mc) ==
    LET basket == SelectBasket(mc.globalOutlook, up.incomeNeeds)
        names  == {b.name : b \in basket} \cup {BondETF}
        factor(n) == (CHOOSE b \in basket : b.name = n).tenths
    IN  [n \in names |->
            IF n = BondETF THEN BondAllocation(up)
            ELSE (AdjustedEquityAllocation(up, mc) * factor(n)) \div 10]

RECURSIVE SumOver(_, _)
SumOver(f, S) ==
    IF S = {} THEN 0
    ELSE LET x == CHOOSE y \in S : TRUE IN f[x] + SumOver(f, S \ {x})

\* totalAllocation
TotalAllocation(raw) == SumOver(raw, DOMAIN raw)

NormalizeSkipped(raw) == [n \in DOMAIN raw |-> [num |-> raw[n], den |-> 10000]]

\* portfolio[etf].allocation / totalAllocation, kept as a fraction
Normalize(raw) == [n \in DOMAIN raw |-> [num |-> raw[n], den |-> TotalAllocation(raw)]]

\* generateAdvancedPortfolio: ok = FALSE when a lookup etfData[name] finds no
\* entry (the TypeError the route turns into a 500)
generateAdvancedPortfolio(up, amount, etfData, mc) ==
    LET raw == RawPortfolio(up, mc)
    IN  IF DOMAIN raw \subseteq DOMAIN etfData
        THEN [ok             |-> TRUE,
              portfolio      |-> Normalize(raw),
              hasQuote       |-> {n \in DOMAIN raw : etfData[n].hasQuote},
              highVolatility |-> HighVolatility(mc),
              outlook        |-> mc.globalOutlook,
              description    |-> [market     |-> mc.description,
                                  projection |-> MonthlyProjection(up)],
              factors        |-> mc.factors,
              rationale      |-> Rationale(up, mc)]
        ELSE [ok             |-> FALSE,
              portfolio      |-> <<>>,
              hasQuote       |-> {},
              highVolatility |-> HighVolatility(mc),
              outlook        |-> mc.globalOutlook,
              description    |-> [market |-> <<>>, projection |-> {}],
              factors        |-> <<>>,
              rationale      |-> <<>>]

(***************************************************************************)
(* Chat page: profile, transcript and the texts of the bot.                *)
(***************************************************************************)
EmptyProfile ==
    [investmentGoal   |-> <<>>,
     timeHorizon      |-> 0,
     riskTolerance    |-> <<>>,
     incomeNeeds      |-> <<>>,
     investmentAmount |-> <<>>,
     investmentType   |-> <<>>,
     monthlyAmount    |-> <<>>]

Yes == <<"y", "e", "s">>

No == <<"n", "o">>

Low == <<"l", "o", "w">>

Medium == <<"m", "e", "d", "i", "u", "m">>

AskHorizon == "How long do you plan to invest for? Please specify the number of years (e.g., 5 years, 10 years, etc.)"

AskRisk == "What's your risk tolerance? (Low, Medium, or High)"

AskIncome == "Do you need regular income from this investment? (Yes/No)"

AskAmount == "How much are you planning to invest? (in Rands)"

AskType == "Is this a once-off lump sum investment or a recurring monthly investment? (Type 'once-off' or 'monthly')"

AskMonthly == "What is the monthly amount you plan to invest? (in Rands)"

RetryAmount == "Please enter a valid investment amount (e.g., 10000)"

RetryHorizon == "Please enter a valid time horizon in years (between 1 and 50 years)"

RetryRisk == "Please specify your risk tolerance as Low, Medium, or High"

RetryIncome == "Please answer Yes or No regarding your income needs"

RetryType == "Please specify 'once-off' for a lump sum or 'monthly' for a recurring investment."

RetryMonthly == "Please enter a valid monthly investment amount (e.g., 1000)"

AlreadyProvided == "I've already provided a portfolio recommendation. If you'd like a new one, please refresh the page to start over."

CouldNotGenerate == "I apologize, but I couldn't generate a portfolio at this time. Please try again later."

AdviceText == "Based on your profile:"

\* the texts the user can type
Inputs ==
    {<<"1", "0", "0", "0", "0">>,
     <<"5", " ", "y", "e", "a", "r", "s">>,
     <<"0">>,
     <<"m", "e", "d", "i", "u", "m">>,
     <<"L", "o", "w">>,
     <<"H", "I", "G", "H">>,
     <<"y", "e", "s">>,
     <<"N", "o">>,
     <<"o", "n", "c", "e", "-", "o", "f", "f">>,
     <<"M", "o", "n", "t", "h", "l", "y">>,
     <<"a", "b", "c">>,
     <<" ">>}

\* the outcomes of the two index quotes of getMarketConditions the route can see
QuoteOutcomes ==
    {[ok |-> FALSE, spReturn |-> 0, vix |-> NaN]}
    \cup {[ok |-> TRUE, spReturn |-> 100, vix |-> 10],
          [ok |-> TRUE, spReturn |-> -100, vix |-> 30]}

\* the sets of instruments whose lookup fails in getETFData
FailedSets == {{}, {BondETF}}

\* the first field still unset, in the order the branches of
\* generateBotResponse test them; "none" is the final else
PendingFieldAmountFirst(profile) ==
    IF profile.investmentGoal = <<>> THEN "investmentGoal"
    ELSE IF profile.timeHorizon = 0 THEN "timeHorizon"
    ELSE IF profile.riskTolerance = <<>> THEN "riskTolerance"
    ELSE IF profile.investmentAmount = <<>> THEN "investmentAmount"
    ELSE IF profile.incomeNeeds = <<>> THEN "incomeNeeds"
    ELSE IF profile.investmentType = <<>> THEN "investmentType"
    ELSE IF profile.investmentType = Monthly /\ profile.monthlyAmount = <<>> THEN "monthlyAmount"
    ELSE "none"

PendingFieldReasksMonthly(profile) ==
    IF profile.investmentGoal = <<>> THEN "investmentGoal"
    ELSE IF profile.timeHorizon = 0 THEN "timeHorizon"
    ELSE IF profile.riskTolerance = <<>> THEN "riskTolerance"
    ELSE IF profile.incomeNeeds = <<>> THEN "incomeNeeds"
    ELSE IF profile.investmentAmount = <<>> THEN "investmentAmount"
    ELSE IF profile.investmentType = <<>> THEN "investmentType"
    ELSE IF profile.investmentType = Monthly THEN "monthlyAmount"
    ELSE "none"

PendingField(profile) ==
    IF profile.investmentGoal = <<>> THEN "investmentGoal"
    ELSE IF profile.timeHorizon = 0 THEN "timeHorizon"
    ELSE IF profile.riskTolerance = <<>> THEN "riskTolerance"
    ELSE IF profile.incomeNeeds = <<>> THEN "incomeNeeds"
    ELSE IF profile.investmentAmount = <<>> THEN "investmentAmount"
    ELSE IF profile.investmentType = <<>> THEN "investmentType"
    ELSE IF profile.investmentType = Monthly /\ profile.monthlyAmount = <<>> THEN "monthlyAmount"
    ELSE "none"

\* what a branch of generateBotResponse decides before the first await: the
\* profile handed to setUserProfile (the old one when it is not called), the
\* botResponse, and whether generatePortfolio is called
Reply(profile, text, generate) ==
    [profile |-> profile, botResponse |-> text, generate |-> generate]

GoalBranch(profile, userInput) ==
    IF validateAmount(userInput) # 0
    THEN Reply([profile EXCEPT !.investmentGoal = userInput], AskHorizon, FALSE)
    ELSE Reply(profile, RetryAmount, FALSE)

HorizonBranch(profile, userInput) ==
    IF validateTimeHorizon(userInput) # 0
    THEN Reply([profile EXCEPT !.timeHorizon = validateTimeHorizon(userInput)], AskRisk, FALSE)
    ELSE Reply(profile, RetryHorizon, FALSE)

RiskBranchStoringRejected(profile, userInput) ==
    IF validateRiskTolerance(userInput) # <<>>
    THEN Reply([profile EXCEPT !.riskTolerance = validateRiskTolerance(userInput)],
               AskIncome, FALSE)
    ELSE Reply([profile EXCEPT !.riskTolerance = ToLowerCase(userInput)], RetryRisk, FALSE)

RiskBranch(profile, userInput) ==
    IF validateRiskTolerance(userInput) # <<>>
    THEN Reply([profile EXCEPT !.riskTolerance = validateRiskTolerance(userInput)],
               AskIncome, FALSE)
    ELSE Reply(profile, RetryRisk, FALSE)

IncomeBranch(profile, userInput) ==
    IF ToLowerCase(userInput) \in {Yes, No}
    THEN Reply([profile EXCEPT !.incomeNeeds = ToLowerCase(userInput)], AskAmount, FALSE)
    ELSE Reply(profile, RetryIncome, FALSE)

AmountBranch(profile, userInput) ==
    IF validateAmount(userInput) # 0
    THEN Reply([profile EXCEPT !.investmentAmount = NumberToString(validateAmount(userInput))],
               AskType, FALSE)
    ELSE Reply(profile, RetryAmount, FALSE)

TypeBranchGeneratingEarly(profile, userInput) ==
    IF ToLowerCase(userInput) \in {OnceOff, Monthly}
    THEN Reply([profile EXCEPT !.investmentType = ToLowerCase(userInput)], "", TRUE)
    ELSE Reply(profile, RetryType, FALSE)

TypeBranch(profile, userInput) ==
    IF ToLowerCase(userInput) \in {OnceOff, Monthly}
    THEN IF ToLowerCase(userInput) = Monthly
         THEN Reply([profile EXCEPT !.investmentType = Monthly], AskMonthly, FALSE)
         ELSE Reply([profile EXCEPT !.investmentType = OnceOff], "", TRUE)
    ELSE Reply(profile, RetryType, FALSE)

MonthlyBranch(profile, userInput) ==
    IF validateAmount(userInput) # 0
    THEN Reply([profile EXCEPT !.monthlyAmount = NumberToString(validateAmount(userInput))],
               "", TRUE)
    ELSE Reply(profile, RetryMonthly, FALSE)

\* generateBotResponse up to its first await
BotResponse(profile, userInput) ==
    LET field == PendingField(profile)
    IN  CASE field = "investmentGoal"   -> GoalBranch(profile, userInput)
          [] field = "timeHorizon"      -> HorizonBranch(profile, userInput)
          [] field = "riskTolerance"    -> RiskBranch(profile, userInput)
          [] field = "incomeNeeds"      -> IncomeBranch(profile, userInput)
          [] field = "investmentAmount" -> AmountBranch(profile, userInput)
          [] field = "investmentType"   -> TypeBranch(profile, userInput)
          [] field = "monthlyAmount"    -> MonthlyBranch(profile, userInput)
          [] OTHER                      -> Reply(profile, AlreadyProvided, FALSE)

PortfolioRequestSendingLumpSum(profile) ==
    [userProfile |->
        [age               |-> 30,
         riskScore         |-> IF profile.riskTolerance = Low THEN 3
                               ELSE IF profile.riskTolerance = Medium THEN 5 ELSE 8,
         investmentHorizon |-> IF profile.timeHorizon # 0 THEN profile.timeHorizon ELSE 5,
         incomeNeeds       |-> profile.incomeNeeds = Yes,
         investmentType    |-> profile.investmentType,
         monthlyAmount     |-> NaN],
     amount |-> ToNumber(profile.investmentAmount)]

\* the body generatePortfolio posts to /api/portfolio
PortfolioRequest(profile) ==
    [userProfile |->
        [age               |-> 30,
         riskScore         |-> IF profile.riskTolerance = Low THEN 3
                               ELSE IF profile.riskTolerance = Medium THEN 5 ELSE 8,
         investmentHorizon |-> IF profile.timeHorizon # 0 THEN profile.timeHorizon ELSE 5,
         incomeNeeds       |-> profile.incomeNeeds = Yes,
         investmentType    |-> profile.investmentType,
         monthlyAmount     |-> NaN],
     amount |->
        IF profile.investmentType = Monthly /\ profile.monthlyAmount # <<>>
        THEN ToNumber(profile.monthlyAmount)
        ELSE ToNumber(profile.investmentAmount)]

\* handleSend's catch: the message appended when generateBotResponse throws
EncounteredError == "I apologize, but I encountered an error. Please try again."

\* the error field of the route's 500 answer
RouteError == "Failed to generate portfolio"

\* the answer of the portfolio route: status and body (error field, "" when
\* absent; data holds portfolio and marketAnalysis, {} when absent), with the
\* text of the error behind it
RouteAnswer(result) ==
    IF result.ok
    THEN [status |-> 200, error |-> "", data |-> {result}, cause |-> ""]
    ELSE [status |-> 500, error |-> RouteError, data |-> {},
          cause  |-> "TypeError: Cannot read properties of undefined (reading 'price')"]

\* the outcomes of the fetch that do not come from a run of the engine: the
\* fetch rejects (status 0), a status that is not ok, a body with an error
\* field, and a body without a portfolio, which generateAdvice cannot render
ForeignAnswers ==
    {[status |-> 0, error |-> "", data |-> {}, cause |-> "TypeError: Failed to fetch"],
     [status |-> 502, error |-> "", data |-> {}, cause |-> "Bad Gateway"],
     [status |-> 200, error |-> "Upstream request timed out", data |-> {},
      cause  |-> "Upstream request timed out"],
     [status |-> 200, error |-> "", data |-> {},
      cause  |-> "TypeError: Cannot convert undefined or null to object"]}

\* generatePortfolio throws into its own catch and returns null
RequestFailed(answer) == answer.status # 200 \/ answer.error # ""

FailureReplyQuotingCause(answer) == answer.cause

\* the bot message of a completing turn that gets no advice: the apology of
\* generateBotResponse when generatePortfolio returned null, the apology of
\* handleSend when generateAdvice threw
FailureReply(answer) ==
    IF RequestFailed(answer) THEN CouldNotGenerate ELSE EncounteredError

generateAdviceWithoutRows(portfolio, amount, profile) ==
    [portfolio |-> <<>>, amount |-> amount, profile |-> profile]

\* what generateAdvice renders: the profile lines, the amount and one table row
\* per instrument of the portfolio
generateAdvice(portfolio, amount, profile) ==
    [portfolio |-> portfolio, amount |-> amount, profile |-> profile]

\* a transcript entry; turn is the number of the handleSend call it belongs to.
\* The text of a user message is not kept.
UserMessage(turn) ==
    [role |-> "user", content |-> "", isPortfolioRecommendation |-> FALSE,
     advice |-> {}, turn |-> turn]

BotMessage(text, turn) ==
    [role |-> "bot", content |-> text, isPortfolioRecommendation |-> FALSE,
     advice |-> {}, turn |-> turn]

AdviceMessage(advice, turn) ==
    [role |-> "bot", content |-> AdviceText, isPortfolioRecommendation |-> TRUE,
     advice |-> {advice}, turn |-> turn]

Welcome == "Welcome to the Easy Equities Advisor Bot! I'm here to help you create a personalized investment portfolio."

(***************************************************************************)
(* The chat: typing, handleSend, the portfolio route, the continuation.    *)
(***************************************************************************)
ChatInit ==
    /\ input = <<>>
    /\ messages = <<BotMessage(Welcome, 0)>>
    /\ userProfile = EmptyProfile
    /\ generatedPortfolio = {}
    /\ marketAnalysis = {}
    /\ portfolioCall = {}
    /\ engineCalls = <<>>
    /\ sends = 0

\* the engine harness is idle in the chat specification
NoRequest ==
    [userProfile |-> [age |-> 30, riskScore |-> 5, investmentHorizon |-> 5,
                      incomeNeeds |-> FALSE, investmentType |-> OnceOff,
                      monthlyAmount |-> NaN],
     amount |-> 0,
     quotes |-> [ok |-> FALSE, spReturn |-> 0, vix |-> NaN],
     failed |-> {}]

Init ==
    /\ ChatInit
    /\ eIn = NoRequest
    /\ eOut = {}

\* onChange of the input box: setInput(e.target.value).  A text is typed into
\* an empty or blank box: replacing an unsent draft reaches no state that typing
\* the replacement at once does not reach.
Type ==
    /\ sends < MaxSends
    /\ Trim(input) = <<>>
    /\ \E text \in Inputs : input' = text
    /\ UNCHANGED <<messages, userProfile, generatedPortfolio, marketAnalysis,
                   portfolioCall, engineCalls, sends, eIn, eOut>>

\* handleSend with generateBotResponse up to the fetch of generatePortfolio
HandleSend ==
    IF Trim(input) = <<>>
    THEN UNCHANGED vars
    ELSE LET userMessage == Trim(input)
             r           == BotResponse(userProfile, userMessage)
             turn        == sends + 1
         IN  /\ input' = <<>>
             /\ sends' = turn
             /\ userProfile' = r.profile
             /\ IF r.generate
                THEN /\ messages' = Append(messages, UserMessage(turn))
                     /\ portfolioCall' = {[turn     |-> turn,
                                          profile  |-> r.profile,
                                          request  |-> PortfolioRequest(r.profile),
                                          stage    |-> "sent",
                                          answer   |-> {},
                                          response |-> {}]}
                ELSE /\ messages' = messages \o <<UserMessage(turn),
                                                  BotMessage(r.botResponse, turn)>>
                     /\ UNCHANGED portfolioCall
             /\ UNCHANGED <<generatedPortfolio, marketAnalysis, engineCalls, eIn, eOut>>

\* POST /api/portfolio: the route runs the engine and answers with its result,
\* or with status 500 when the engine throws
RoutePost ==
    \E call \in portfolioCall, q \in QuoteOutcomes, failed \in FailedSets :
        /\ call.stage = "sent"
        /\ LET result == generateAdvancedPortfolio(call.request.userProfile,
                                                  call.request.amount,
                                                  getETFData(failed),
                                                  getMarketConditions(q))
           IN  /\ engineCalls' = Append(engineCalls,
                                        [turn |-> call.turn, request |-> call.request,
                                         result |-> result])
               /\ portfolioCall' = {[call EXCEPT !.stage = "answered",
                                                 !.answer = {RouteAnswer(result)},
                                                 !.response = IF result.ok THEN {result} ELSE {}]}
        /\ UNCHANGED <<input, messages, userProfile, generatedPortfolio,
                       marketAnalysis, sends, eIn, eOut>>

\* the route awaits a quote or historical request that the market-data
\* provider never answers: neither getETFData, getMarketConditions, the route
\* nor the fetch of generatePortfolio sets a timer
ProviderHangs ==
    \E call \in portfolioCall :
        /\ call.stage = "sent"
        /\ portfolioCall' = {[call EXCEPT !.stage = "waiting"]}
        /\ UNCHANGED <<input, messages, userProfile, generatedPortfolio,
                       marketAnalysis, engineCalls, sends, eIn, eOut>>

\* the fetch rejects, or is answered without the route having run the engine
FetchFails ==
    \E call \in portfolioCall, answer \in ForeignAnswers :
        /\ call.stage = "sent"
        /\ portfolioCall' = {[call EXCEPT !.stage = "answered",
                                          !.answer = {answer},
                                          !.response = {}]}
        /\ UNCHANGED <<input, messages, userProfile, generatedPortfolio,
                       marketAnalysis, engineCalls, sends, eIn, eOut>>

ContinueSilentOnFailure ==
    \E call \in portfolioCall :
        /\ call.stage = "answered"
        /\ portfolioCall' = {[call EXCEPT !.stage = "done"]}
        /\ IF \E answer \in call.answer : ~RequestFailed(answer) /\ answer.data # {}
           THEN LET data == CHOOSE d \in call.response : TRUE
                IN  /\ generatedPortfolio' = {data.portfolio}
                    /\ marketAnalysis' = {[outlook        |-> data.outlook,
                                           highVolatility |-> data.highVolatility,
                                           description    |-> data.description,
                                           factors        |-> data.factors,
                                           rationale      |-> data.rationale]}
                    /\ messages' = Append(messages,
                           AdviceMessage(generateAdvice(data.portfolio,
                                                        call.request.amount,
                                                        call.profile),
                                         call.turn))
           ELSE UNCHANGED <<messages, generatedPortfolio, marketAnalysis>>
        /\ UNCHANGED <<input, userProfile, engineCalls, sends, eIn, eOut>>

\* generatePortfolio after the fetch, and the rest of generateBotResponse
Continue ==
    \E call \in portfolioCall :
        /\ call.stage = "answered"
        /\ portfolioCall' = {[call EXCEPT !.stage = "done"]}
        /\ IF \E answer \in call.answer : ~RequestFailed(answer) /\ answer.data # {}
           THEN LET data == CHOOSE d \in call.response : TRUE
                IN  /\ generatedPortfolio' = {data.portfolio}
                    /\ marketAnalysis' = {[outlook        |-> data.outlook,
                                           highVolatility |-> data.highVolatility,
                                           description    |-> data.description,
                                           factors        |-> data.factors,
                                           rationale      |-> data.rationale]}
                    /\ messages' = Append(messages,
                           AdviceMessage(generateAdvice(data.portfolio,
                                                        call.request.amount,
                                                        call.profile),
                                         call.turn))
           ELSE /\ messages' = Append(messages,
                       BotMessage(FailureReply(CHOOSE answer \in call.answer : TRUE),
                                  call.turn))
                /\ UNCHANGED <<generatedPortfolio, marketAnalysis>>
        /\ UNCHANGED <<input, userProfile, engineCalls, sends, eIn, eOut>>

Next == Type \/ HandleSend \/ RoutePost \/ ProviderHangs \/ FetchFails \/ Continue

Spec == Init /\ [][Next]_vars

(***************************************************************************)
(* Engine harness: generateAdvancedPortfolio applied to one request.       *)
(***************************************************************************)
\* the outcomes of the two index quotes the harness draws from
EngineQuoteOutcomes ==
    {[ok |-> FALSE, spReturn |-> 0, vix |-> NaN]}
    \cup [ok : {TRUE}, spReturn : {0, 100}, vix : {NaN, 0, 10, 25, 26, 30}]

\* requests over every age and risk score (riskScore is 1-10), all lookups
\* of the instruments succeeding
AllocationInputs ==
    [userProfile : [age : 0..MaxAge, riskScore : 1..10, investmentHorizon : {5},
                    incomeNeeds : BOOLEAN, investmentType : {OnceOff},
                    monthlyAmount : {NaN}],
     amount : {1000000},
     quotes : EngineQuoteOutcomes,
     failed : {{}}]

\* requests over the optional fields of UserProfile: investmentType,
\* monthlyAmount (NaN is undefined) and a horizon of 0
ProjectionInputs ==
    [userProfile : [age : {30, 60}, riskScore : {3, 5, 8}, investmentHorizon : {0, 5, 10},
                    incomeNeeds : BOOLEAN, investmentType : {OnceOff, Monthly},
                    monthlyAmount : {NaN, 0, 100000}],
     amount : {100000},
     quotes : {[ok |-> FALSE, spReturn |-> 0, vix |-> NaN],
               [ok |-> TRUE, spReturn |-> 100, vix |-> 10],
               [ok |-> TRUE, spReturn |-> 0, vix |-> 30]},
     failed : {{}}]

\* requests served while the lookups of any set of instruments fail
FailureInputs ==
    [userProfile : [age : {30}, riskScore : {5}, investmentHorizon : {5},
                    incomeNeeds : BOOLEAN, investmentType : {OnceOff},
                    monthlyAmount : {NaN}],
     amount : {1000000},
     quotes : {[ok |-> TRUE, spReturn |-> 100, vix |-> 10],
               [ok |-> TRUE, spReturn |-> 0, vix |-> 10]},
     failed : SUBSET ETF_SYMBOLS]

EngineInputs == AllocationInputs \cup ProjectionInputs \cup FailureInputs

EngineResult(in) ==
    generateAdvancedPortfolio(in.userProfile, in.amount, getETFData(in.failed),
                              getMarketConditions(in.quotes))

InitEngine ==
    /\ ChatInit
    /\ eIn \in EngineInputs
    /\ eOut = {}

EngineCall ==
    /\ eOut = {}
    /\ eOut' = {EngineResult(eIn)}
    /\ UNCHANGED <<input, messages, userProfile, generatedPortfolio, marketAnalysis,
                   portfolioCall, engineCalls, sends, eIn>>

NextEngine == EngineCall

SpecEngine == InitEngine /\ [][NextEngine]_vars

(***************************************************************************)
(* Validator harness: a validator applied to one text.                     *)
(***************************************************************************)
\* the characters the texts under test are made of
ValidatorChars == {"0", "1", "5", ".", ",", "R", " "}

\* the digit 1 followed by 309 zeros
LongDigits == [i \in 1..310 |-> IF i = 1 THEN "1" ELSE "0"]

\* every text of at most MaxTextLen characters, and some longer ones
\* answers to the questions with a fixed set of answers: the members in
\* several spellings, and texts that only contain or resemble a member
EnumTexts ==
    {<<"l", "o", "w">>, <<"L", "O", "W">>, <<"L", "o", "w">>, <<"l", "o">>,
     <<"m", "e", "d", "i", "u", "m">>, <<"M", "e", "d", "i", "u", "m">>,
     <<"h", "i", "g", "h">>, <<"H", "I", "g", "h">>,
     <<"h", "i", "g", "h", " ", "r", "i", "s", "k">>,
     <<"v", "e", "r", "y", " ", "l", "o", "w">>, <<"l", "o", "w", ".">>,
     <<"y", "e", "s">>, <<"Y", "E", "S">>, <<"Y", "e", "s">>, <<"y">>,
     <<"y", "e", "s", " ", "p", "l", "e", "a", "s", "e">>, <<"y", "e", "s", "!">>,
     <<"n", "o">>, <<"N", "o">>, <<"N", "O">>, <<"n", "o", "p", "e">>,
     <<"n", "o", "t", " ", "n", "o", "w">>,
     <<"o", "n", "c", "e", "-", "o", "f", "f">>, <<"O", "n", "c", "e", "-", "O", "f", "f">>,
     <<"O", "N", "C", "E", "-", "O", "F", "F">>, <<"o", "n", "c", "e", " ", "o", "f", "f">>,
     <<"o", "n", "c", "e">>, <<"m", "o", "n", "t", "h", "l", "y">>,
     <<"M", "o", "n", "t", "h", "l", "y">>, <<"M", "O", "N", "T", "H", "L", "Y">>,
     <<"m", "o", "n", "t", "h", "l", "y", " ", "p", "l", "e", "a", "s", "e">>,
     <<"m", "o", "n", "t", "h">>,
     <<"5", " ", "y", "e", "a", "r", "s">>, <<"1", "0", " ", "Y", "e", "a", "r", "s">>,
     <<"5", " ", "t", "o", " ", "1", "0">>}

ValidatorInputs ==
    UNION {[1..n -> ValidatorChars] : n \in 0..MaxTextLen}
    \cup {<<"R", "1", "0", ",", "0", "0", "0">>, <<"R", " ", "1", "5", ".", "5", "0">>,
          <<"1", ".", "5", ".", "1">>, <<"a", "b", "c">>, <<"0", ".", "0", "0", "1">>,
          <<"0", ".", "0", "0">>, LongDigits}
    \cup EnumTexts

\* a profile whose first unset field is the given one
ProfileAwaiting(field) ==
    LET order  == <<"investmentGoal", "timeHorizon", "riskTolerance", "incomeNeeds",
                    "investmentAmount", "investmentType">>
        filled == [investmentGoal   |-> <<"g", "r", "o", "w", "t", "h">>,
                   timeHorizon      |-> 5,
                   riskTolerance    |-> Medium,
                   incomeNeeds      |-> No,
                   investmentAmount |-> <<"1", "0", "0", "0", "0">>,
                   investmentType   |-> <<>>,
                   monthlyAmount    |-> <<>>]
        at     == CHOOSE i \in 1..6 : order[i] = field
    IN  [f \in DOMAIN EmptyProfile |->
            IF \E i \in 1..(at - 1) : order[i] = f THEN filled[f] ELSE EmptyProfile[f]]

InitValidate ==
    /\ ChatInit
    /\ eIn \in [text : ValidatorInputs]
    /\ eOut = {}

ValidateCall ==
    /\ eOut = {}
    /\ eOut' = {[amount         |-> validateAmount(eIn.text),
                 timeHorizon    |->
                     BotResponse(ProfileAwaiting("timeHorizon"), eIn.text).profile.timeHorizon,
                 riskTolerance  |->
                     BotResponse(ProfileAwaiting("riskTolerance"), eIn.text).profile.riskTolerance,
                 incomeNeeds    |->
                     BotResponse(ProfileAwaiting("incomeNeeds"), eIn.text).profile.incomeNeeds,
                 investmentType |->
                     BotResponse(ProfileAwaiting("investmentType"), eIn.text).profile.investmentType]}
    /\ UNCHANGED <<input, messages, userProfile, generatedPortfolio, marketAnalysis,
                   portfolioCall, engineCalls, sends, eIn>>

NextValidate == ValidateCall

SpecValidate == InitValidate /\ [][NextValidate]_vars

\* C20 as stated: validateAmount accepts a text exactly when the text without
\* the characters other than digits and dots parses to a finite number
\* greater than 0, and then returns that number.
C20_AcceptsExactlyFinitePositive ==
    \A r \in eOut :
        LET sanitized == KeepDigitsAndDots(eIn.text)
            l         == FloatLiteral(sanitized)
        IN  /\ r.amount # 0 <=>
                  ~IsNaNLiteral(l) /\ ~IsInfiniteLiteral(l) /\ IsPositiveLiteral(l)
            /\ (r.amount # 0 /\ ParseFloat(sanitized) # 0) => r.amount = ParseFloat(sanitized)
            /\ eIn.text = <<"R", "1", "0", ",", "0", "0", "0">> => r.amount = 1000000

\* the digits of the text, without leading zeros
SignificantDigits(text) ==
    LET digits  == SelectSeq(text, IsDigit)
        nonzero == {i \in 1..Len(digits) : digits[i] # "0"}
    IN  IF nonzero = {} THEN <<>>
        ELSE SubSeq(digits, CHOOSE i \in nonzero : \A j \in nonzero : i <= j, Len(digits))

\* C21: the answer to the time-horizon question is accepted exactly when its
\* digits form an integer n with 1 <= n <= 50, and the profile then holds n.
C21_HorizonWithinOneToFifty ==
    \A r \in eOut :
        /\ r.timeHorizon \in 0..50
        /\ \A n \in 1..50 :
              r.timeHorizon = n <=> SignificantDigits(eIn.text) = NatToDigits(n)

\* C21 witness: a text with other characters around the digits of 50 was
\* accepted as 50.
C21_Witness ==
    \E r \in eOut : r.timeHorizon = 50 /\ Len(eIn.text) > 2

\* the texts equal to the word but for the case of their letters
Spellings(word) ==
    {text \in ValidatorInputs :
        /\ Len(text) = Len(word)
        /\ \A i \in 1..Len(word) :
              \/ text[i] = word[i]
              \/ \E k \in 1..26 : word[i] = LowerCase[k] /\ text[i] = UpperCase[k]}

\* the field holds the member of the set the text spells, and is unset when
\* the text spells none
StoresSpelledMember(stored, text, members) ==
    /\ \A word \in members : stored = word <=> text \in Spellings(word)
    /\ stored \in members \cup {<<>>}

\* C22: the answers for risk tolerance, income needs and investment type are
\* accepted exactly when they equal a member of the field's set of answers but
\* for case; the lower-case member is stored; any other text is rejected.
C22_EnumAnswersMatchExactly ==
    \A r \in eOut :
        /\ StoresSpelledMember(r.riskTolerance, eIn.text,
                               {<<"l", "o", "w">>, <<"m", "e", "d", "i", "u", "m">>,
                                <<"h", "i", "g", "h">>})
        /\ StoresSpelledMember(r.incomeNeeds, eIn.text, {<<"y", "e", "s">>, <<"n", "o">>})
        /\ StoresSpelledMember(r.investmentType, eIn.text,
                               {<<"o", "n", "c", "e", "-", "o", "f", "f">>,
                                <<"m", "o", "n", "t", "h", "l", "y">>})

\* C22 witness: the answer "HIgh" to the risk question was stored as high.
C22_Witness ==
    \E r \in eOut :
        /\ eIn.text = <<"H", "I", "g", "h">>
        /\ r.riskTolerance = <<"h", "i", "g", "h">>
        /\ r.incomeNeeds = <<>> /\ r.investmentType = <<>>

(***************************************************************************)
(* Properties of the engine, checked under SpecEngine.                     *)
(***************************************************************************)
EquityNames(portfolio) == DOMAIN portfolio \ {BondETF}

\* the summed numerators of the instruments other than the bond instrument
EquityNum(portfolio) == SumOver([n \in DOMAIN portfolio |-> portfolio[n].num],
                                EquityNames(portfolio))

\* the denominator all allocations of a portfolio share
CommonDen(portfolio) == portfolio[BondETF].den

\* the engine's result for the harness request with one input changed
WithVix(in, vix) == EngineResult([in EXCEPT !.quotes.vix = vix])

WithIncomeNeeds(in, needs) == EngineResult([in EXCEPT !.userProfile.incomeNeeds = needs])

\* C7: every weight the engine returns lies in [0, 1] and the weights sum to 1.
C7_WeightsNormalized ==
    \A r \in eOut :
        /\ r.ok
        /\ \A n \in DOMAIN r.portfolio :
              /\ r.portfolio[n].den > 0
              /\ 0 <= r.portfolio[n].num
              /\ r.portfolio[n].num <= r.portfolio[n].den
              /\ r.portfolio[n].den = CommonDen(r.portfolio)
        /\ SumOver([n \in DOMAIN r.portfolio |-> r.portfolio[n].num], DOMAIN r.portfolio)
              = CommonDen(r.portfolio)

\* C7 witness: the engine has answered a request whose raw allocations do not
\* sum to 1 (age 120, riskScore 1, high volatility, no income need).
C7_Witness ==
    /\ eOut # {}
    /\ eIn.userProfile.age = 120
    /\ eIn.userProfile.riskScore = 1
    /\ ~eIn.userProfile.incomeNeeds
    /\ eIn.quotes.ok /\ eIn.quotes.vix = 30
    /\ \A r \in eOut : CommonDen(r.portfolio) # 10000

\* C8 as stated: with volatility index 30 the equity share is strictly lower
\* than with volatility index 10, whatever the other inputs.
C8_HighVolatilityLowersEquity ==
    \A r \in eOut :
        (eIn.quotes.ok /\ eIn.quotes.vix = 30) =>
            LET low == WithVix(eIn, 10)
            IN  EquityNum(r.portfolio) * CommonDen(low.portfolio)
                    < EquityNum(low.portfolio) * CommonDen(r.portfolio)

\* C9 as stated: the bond weight with incomeNeeds = true is at least the bond
\* weight of the same request with incomeNeeds = false.
C9_IncomeNeverLowersBond ==
    \A r \in eOut :
        eIn.userProfile.incomeNeeds =>
            LET without == WithIncomeNeeds(eIn, FALSE)
            IN  r.portfolio[BondETF].num * CommonDen(without.portfolio)
                    >= without.portfolio[BondETF].num * CommonDen(r.portfolio)

\* the decision table as the claim C10 states it, sub-weights in tenths
C10_Table(outlook, incomeNeeds) ==
    IF outlook = "positive" /\ incomeNeeds
    THEN {<<"CoreShares S&P Global Dividend Aristocrats ETF", 4>>,
          <<"Satrix MSCI World ETF", 3>>,
          <<"CoreShares S&P South Africa Dividend Aristocrats ETF", 3>>}
    ELSE IF outlook = "positive"
    THEN {<<"Satrix MSCI World ETF", 6>>, <<"Satrix MSCI Emerging Markets ETF", 4>>}
    ELSE IF incomeNeeds
    THEN {<<"CoreShares S&P South Africa Dividend Aristocrats ETF", 5>>,
          <<"Satrix Property ETF", 3>>,
          <<"Satrix Top 40 ETF", 2>>}
    ELSE {<<"Satrix Top 40 ETF", 7>>,
          <<"CoreShares S&P South Africa Dividend Aristocrats ETF", 3>>}

\* C10: the instruments returned are those of the decision-table cell chosen by
\* (outlook, incomeNeeds) plus the bond instrument; each equity instrument holds
\* its sub-weight of the equity allocation, and the sub-weights of the cell sum to 1.
C10_BasketIsDecisionTableCell ==
    \A r \in eOut :
        LET cell == C10_Table(r.outlook, eIn.userProfile.incomeNeeds)
        IN  /\ DOMAIN r.portfolio = {c[1] : c \in cell} \cup {BondETF}
            /\ BondETF \notin {c[1] : c \in cell}
            /\ \A c \in cell :
                  r.portfolio[c[1]].num * 10 = c[2] * EquityNum(r.portfolio)
            /\ SumOver([c \in cell |-> c[2]], cell) = 10
            /\ r.outlook = (IF eIn.quotes.ok /\ eIn.quotes.spReturn <= 0
                            THEN "negative" ELSE "positive")

\* C10 witness: the engine has answered in the negative-outlook, income cell.
C10_Witness ==
    /\ eOut # {}
    /\ eIn.userProfile.incomeNeeds
    /\ eIn.quotes.ok /\ eIn.quotes.spReturn = 0
    /\ \A r \in eOut : "Satrix Property ETF" \in DOMAIN r.portfolio

\* the allocation w is p percent
IsPercent(w, p) == w.num * 100 = p * w.den

\* the figure quoted by the first rationale line: equityAllocation
BaseEquity(r) == r.rationale[1].value

\* the figure quoted by the last rationale line: bondAllocation
FixedIncome(r) == r.rationale[Len(r.rationale)].value

\* age 30, riskScore 5, no income need, positive outlook, no dampening
C11_Case(r) ==
    /\ eIn.userProfile.age = 30
    /\ eIn.userProfile.riskScore = 5
    /\ ~eIn.userProfile.incomeNeeds
    /\ r.outlook = "positive"
    /\ ~r.highVolatility

\* C11: for age 30, riskScore 5, no income need, a positive outlook and no
\* volatility dampening the base equity is 0.8 and the result is exactly
\* World 0.48, Emerging Markets 0.32 and Bond 0.20.
C11_WorkedExample ==
    \A r \in eOut :
        C11_Case(r) =>
            /\ r.ok
            /\ BaseEquity(r) = 8000
            /\ DOMAIN r.portfolio = {"Satrix MSCI World ETF",
                                     "Satrix MSCI Emerging Markets ETF",
                                     "Satrix SA Bond ETF"}
            /\ IsPercent(r.portfolio["Satrix MSCI World ETF"], 48)
            /\ IsPercent(r.portfolio["Satrix MSCI Emerging Markets ETF"], 32)
            /\ IsPercent(r.portfolio["Satrix SA Bond ETF"], 20)

\* C11 witness: the engine has answered that request with live index quotes.
C11_Witness ==
    \E r \in eOut : C11_Case(r) /\ eIn.quotes.ok /\ eIn.quotes.vix = 25

\* C12: for every age the base equity allocation lies in [0.10, 0.90] and the
\* base bond allocation is its complement, also in [0.10, 0.90].
C12_BaseAllocationsClamped ==
    \A r \in eOut :
        /\ 1000 <= BaseEquity(r) /\ BaseEquity(r) <= 9000
        /\ ~eIn.userProfile.incomeNeeds =>
              /\ FixedIncome(r) = 10000 - BaseEquity(r)
              /\ 1000 <= FixedIncome(r) /\ FixedIncome(r) <= 9000

\* C12 witness: the engine has answered a request of age 0, where the clamp
\* cuts 1.10 down to 0.90 and leaves 0.10 for bonds.
C12_Witness ==
    \E r \in eOut :
        /\ eIn.userProfile.age = 0 /\ ~eIn.userProfile.incomeNeeds
        /\ BaseEquity(r) = 9000 /\ FixedIncome(r) = 1000

\* the engine's result for the harness request with investmentType changed
WithInvestmentType(in, type) ==
    EngineResult([in EXCEPT !.userProfile.investmentType = type])

\* the rationale without its projection line
OtherLines(rationale) ==
    LET other == {i \in 1..Len(rationale) :
                     rationale[i].line # "Projection includes monthly compounding"}
        skipped(i) == Cardinality({j \in 1..i : j \notin other})
    IN  [k \in 1..Cardinality(other) |->
            rationale[CHOOSE i \in other : i - skipped(i) = k]]

\* C14: the projection sentence and its rationale line are produced exactly
\* for investmentType monthly with a monthly amount and a horizon; the
\* projection goes to the description only, and the weights are those of the
\* same request with investmentType once-off.
C14_ProjectionOnlyForMonthly ==
    \A r \in eOut :
        LET up      == eIn.userProfile
            monthly == /\ up.investmentType = <<"m", "o", "n", "t", "h", "l", "y">>
                       /\ up.monthlyAmount \notin {NaN, 0}
                       /\ up.investmentHorizon # 0
            onceOff == WithInvestmentType(eIn, <<"o", "n", "c", "e", "-", "o", "f", "f">>)
        IN  /\ r.description.projection # {} <=> monthly
            /\ OtherLines(r.rationale) # r.rationale <=> monthly
            /\ \A p \in r.description.projection :
                  p.monthlyAmount = up.monthlyAmount /\ p.years = up.investmentHorizon
            /\ onceOff.description.projection = {}
            /\ r.portfolio = onceOff.portfolio
            /\ r.hasQuote = onceOff.hasQuote
            /\ r.description.market = onceOff.description.market
            /\ OtherLines(r.rationale) = onceOff.rationale

\* C14 witness: the engine has answered a monthly request of R1000 over 5
\* years with a projection of about R72,000.
C14_Witness ==
    \E r \in eOut : \E p \in r.description.projection :
        /\ eIn.userProfile.investmentType = Monthly
        /\ p.monthlyAmount = 100000 /\ p.years = 5
        /\ p.FV > 71900 /\ p.FV < 72100

\* C15: when the fetch of the index quotes fails, getMarketConditions answers
\* with outlook positive, return 0 and no volatility figure, and the
\* allocation is the one of the positive outlook without dampening.
C15_FetchFailureFallsBack ==
    \A r \in eOut :
        ~eIn.quotes.ok =>
            LET mc   == getMarketConditions(eIn.quotes)
                calm == EngineResult([eIn EXCEPT
                            !.quotes = [ok |-> TRUE, spReturn |-> 100, vix |-> NaN]])
            IN  /\ mc.globalOutlook = "positive"
                /\ mc.spReturn = 0
                /\ mc.volatilityIndex = NaN
                /\ r.ok
                /\ r.outlook = "positive" /\ ~r.highVolatility
                /\ r.description.market = <<"Market data unavailable">>
                /\ r.portfolio = calm.portfolio
                /\ DOMAIN r.portfolio =
                      IF eIn.userProfile.incomeNeeds
                      THEN {"CoreShares S&P Global Dividend Aristocrats ETF",
                            "Satrix MSCI World ETF",
                            "CoreShares S&P South Africa Dividend Aristocrats ETF",
                            "Satrix SA Bond ETF"}
                      ELSE {"Satrix MSCI World ETF", "Satrix MSCI Emerging Markets ETF",
                            "Satrix SA Bond ETF"}

\* C15 witness: the engine has answered a request with income need while the
\* index quotes failed.
C15_Witness ==
    \E r \in eOut : ~eIn.quotes.ok /\ eIn.userProfile.incomeNeeds /\ r.ok

\* C16: whichever instruments fail, getETFData has an entry for every catalog
\* instrument, a failed one with its description only and every other with its
\* fetched figures, and the weights are those of the request without failure.
C16_InstrumentFailuresIsolated ==
    \A r \in eOut :
        LET etfData == getETFData(eIn.failed)
        IN  /\ DOMAIN etfData = ETF_SYMBOLS
            /\ \A name \in ETF_SYMBOLS :
                  /\ etfData[name].description = name
                  /\ etfData[name].hasQuote <=> name \notin eIn.failed
            /\ r.ok
            /\ r.portfolio = EngineResult([eIn EXCEPT !.failed = {}]).portfolio
            /\ r.hasQuote = DOMAIN r.portfolio \ eIn.failed

\* C16 witness: the engine has answered while the lookups of the bond
\* instrument and of seven others failed.
C16_Witness ==
    \E r \in eOut :
        /\ BondETF \in eIn.failed /\ Cardinality(eIn.failed) = 8
        /\ r.ok /\ r.hasQuote # {} /\ r.hasQuote # DOMAIN r.portfolio

(***************************************************************************)
(* Properties of the intake, checked under Spec.                           *)
(***************************************************************************)
FieldOrder == <<"investmentGoal", "timeHorizon", "riskTolerance", "incomeNeeds",
                "investmentAmount", "investmentType", "monthlyAmount">>

IsSet(profile, k) ==
    IF FieldOrder[k] = "timeHorizon" THEN profile.timeHorizon # 0
    ELSE profile[FieldOrder[k]] # <<>>

\* the position in FieldOrder of the field the next answer is for, 0 when the
\* profile is complete
Cursor(profile) ==
    IF \E k \in 1..6 : ~IsSet(profile, k)
    THEN CHOOSE k \in 1..6 : ~IsSet(profile, k) /\ \A j \in 1..(k - 1) : IsSet(profile, j)
    ELSE IF profile.investmentType = Monthly /\ ~IsSet(profile, 7) THEN 7
    ELSE 0

IsComplete(profile) ==
    /\ \A k \in 1..6 : IsSet(profile, k)
    /\ profile.investmentType \in {OnceOff, Monthly}
    /\ profile.investmentType = Monthly => IsSet(profile, 7)

\* a step of handleSend that passed the trim test
SendStep == sends' = sends + 1

FilledPrefix(profile) ==
    /\ \A k \in 2..7 : IsSet(profile, k) => IsSet(profile, k - 1)
    /\ IsSet(profile, 7) => profile.investmentType = Monthly

SetsOnlyTheCursorField ==
    \/ userProfile' = userProfile
    \/ /\ SendStep
       /\ Cursor(userProfile) # 0
       /\ ~IsSet(userProfile, Cursor(userProfile))
       /\ IsSet(userProfile', Cursor(userProfile))
       /\ \A k \in 1..7 :
             k # Cursor(userProfile) =>
                 userProfile'[FieldOrder[k]] = userProfile[FieldOrder[k]]

\* C1: the filled fields are always a prefix of the canonical order, a step
\* that changes the profile sets exactly the first unset field, and
\* monthlyAmount is set only when investmentType is monthly.
C1_FieldsFilledInOrder ==
    /\ [](FilledPrefix(userProfile))
    /\ [][SetsOnlyTheCursorField]_vars

\* C1 witness: all seven fields are set, through the monthly branch.
C1_Witness ==
    /\ \A k \in 1..7 : IsSet(userProfile, k)
    /\ userProfile.investmentType = Monthly

\* the input fails the validator of field k
FailsValidator(k, text) ==
    CASE k \in {1, 5, 7} -> validateAmount(text) = 0
      [] k = 2 -> validateTimeHorizon(text) = 0
      [] k = 3 -> validateRiskTolerance(text) = <<>>
      [] k = 4 -> ToLowerCase(text) \notin {Yes, No}
      [] k = 6 -> ToLowerCase(text) \notin {OnceOff, Monthly}

Reprompt == <<RetryAmount, RetryHorizon, RetryRisk, RetryIncome, RetryAmount,
              RetryType, RetryMonthly>>

RejectedAnswerStep ==
    (SendStep /\ Cursor(userProfile) # 0
        /\ FailsValidator(Cursor(userProfile), Trim(input)))
    => /\ userProfile' = userProfile
       /\ Cursor(userProfile') = Cursor(userProfile)
       /\ messages' = messages \o <<UserMessage(sends'),
                                     BotMessage(Reprompt[Cursor(userProfile)], sends')>>
       /\ UNCHANGED <<portfolioCall, engineCalls, generatedPortfolio, marketAnalysis>>

\* C2: an answer that fails the pending field's validator leaves the profile
\* as it was, is answered by the re-prompt of that field and by no terminal
\* response, and the same field stays pending.
C2_RejectedAnswerReprompts == [][RejectedAnswerStep]_vars

\* C2 witness: the last answer was rejected as a time horizon, after an
\* accepted goal.
C2_Witness ==
    /\ messages[Len(messages)].content = RetryHorizon
    /\ userProfile.investmentGoal # <<>>
    /\ userProfile.timeHorizon = 0

\* the bot messages of the turns whose answer was accepted
AcceptingTexts == {AskHorizon, AskRisk, AskIncome, AskAmount, AskType, AskMonthly,
                   AdviceText, CouldNotGenerate}

\* the number of answers accepted up to and including turn t
AcceptedUpTo(t) ==
    Cardinality({u \in 1..t : \E i \in 1..Len(messages) :
                    /\ messages[i].role = "bot"
                    /\ messages[i].turn = u
                    /\ messages[i].content \in AcceptingTexts})

\* C3: an advice message belongs to the turn whose answer completed the
\* profile: the 6th accepted answer with once-off, the 7th with monthly, where
\* the 6th accepted answer was answered by the prompt for the monthly amount.
C3_AdviceOnlyOnCompletingTurn ==
    /\ \A i \in 1..Len(messages) :
          messages[i].isPortfolioRecommendation =>
              \A adv \in messages[i].advice :
                  /\ IsComplete(adv.profile)
                  /\ adv.profile.investmentType = OnceOff
                        => AcceptedUpTo(messages[i].turn) = 6
                  /\ adv.profile.investmentType = Monthly
                        => AcceptedUpTo(messages[i].turn) = 7
                  /\ \A j \in 1..Len(messages) :
                        messages[j].isPortfolioRecommendation => j = i
    /\ \A i \in 1..Len(messages) :
          messages[i].content = AskMonthly =>
              /\ AcceptedUpTo(messages[i].turn) = 6
              /\ ~messages[i].isPortfolioRecommendation
              /\ userProfile.investmentType = Monthly

\* C3 witness: the answers "10000", "5 years", "medium", "no", "10000",
\* "once-off" and nothing else were sent, and the advice is in the transcript.
C3_Witness ==
    /\ sends = 6
    /\ messages[Len(messages)].isPortfolioRecommendation
    /\ messages[Len(messages)].turn = 6
    /\ userProfile = [investmentGoal   |-> <<"1", "0", "0", "0", "0">>,
                      timeHorizon      |-> 5,
                      riskTolerance    |-> Medium,
                      incomeNeeds      |-> No,
                      investmentAmount |-> <<"1", "0", "0", "0", "0">>,
                      investmentType   |-> OnceOff,
                      monthlyAmount    |-> <<>>]

AfterCompletionStep ==
    IsComplete(userProfile) =>
        /\ userProfile' = userProfile
        /\ SendStep =>
              /\ messages' = messages \o <<UserMessage(sends'),
                                            BotMessage(AlreadyProvided, sends')>>
              /\ UNCHANGED <<portfolioCall, engineCalls, generatedPortfolio,
                             marketAnalysis>>

\* C4: once the profile is complete no step changes it, and every further
\* message is answered by the fixed "already provided" text without a new
\* portfolio request or engine call.
C4_CompletedProfileIsFinal == [][AfterCompletionStep]_vars

\* C4 witness: a message sent after completion was answered "already provided".
C4_Witness ==
    /\ IsComplete(userProfile)
    /\ messages[Len(messages)].content = AlreadyProvided

BotMessagesOfTurn(t) ==
    {i \in 1..Len(messages) : messages[i].role = "bot" /\ messages[i].turn = t}

\* C6 as stated: the turn that completes the profile is answered by the advice
\* rendered from an engine result.
C6_CompletionAlwaysAdvised ==
    \A call \in portfolioCall :
        call.stage = "done" =>
            /\ \E i \in BotMessagesOfTurn(call.turn) : messages[i].isPortfolioRecommendation
            /\ \E c \in 1..Len(engineCalls) : engineCalls[c].turn = call.turn

\* C6 amended: the request of the completed profile is issued before any bot
\* message of that turn; the turn gets one bot message, which is the advice
\* rendered from the engine's result when the request returned a portfolio (the
\* engine having run on that request) and the fixed apology otherwise.
C6_AdviceFromEngineOrApology ==
    /\ portfolioCall = {} => engineCalls = <<>> /\ ~IsComplete(userProfile)
    /\ \A call \in portfolioCall :
          /\ IsComplete(userProfile)
          /\ call.profile = userProfile
          /\ call.request.userProfile.incomeNeeds = (userProfile.incomeNeeds = Yes)
          /\ call.request.userProfile.investmentHorizon = userProfile.timeHorizon
          /\ call.request.userProfile.investmentType = userProfile.investmentType
          /\ Len(engineCalls) <= 1
          /\ \A c \in 1..Len(engineCalls) :
                engineCalls[c].turn = call.turn /\ engineCalls[c].request = call.request
          /\ call.stage # "done" => BotMessagesOfTurn(call.turn) = {}
          /\ call.stage = "done" =>
                \E i \in 1..Len(messages) :
                    /\ BotMessagesOfTurn(call.turn) = {i}
                    /\ IF call.response # {}
                       THEN /\ messages[i].isPortfolioRecommendation
                            /\ Len(engineCalls) = 1
                            /\ \A adv \in messages[i].advice :
                                  /\ adv.portfolio = engineCalls[1].result.portfolio
                                  /\ adv.profile = userProfile
                                  /\ adv.amount = call.request.amount
                            /\ messages[i].advice # {}
                       ELSE \A answer \in call.answer :
                               RequestFailed(answer) =>
                                   messages[i] = BotMessage(CouldNotGenerate, call.turn)

\* C6 witness: the completing turn was answered by advice rendered from the
\* engine's result, after another message had been sent in between.
C6_Witness ==
    \E call \in portfolioCall :
        /\ call.stage = "done"
        /\ call.response # {}
        /\ messages[Len(messages)].isPortfolioRecommendation
        /\ sends > call.turn

\* C13 as stated: when a conversation completed through the monthly branch and
\* its request returned a narrative, the narrative holds the projection
\* computed from the accepted monthly amount and horizon.
C13_MonthlyAmountReachesProjection ==
    \A call \in portfolioCall :
        (call.stage = "done" /\ userProfile.investmentType = Monthly) =>
            \A analysis \in marketAnalysis :
                \E projection \in analysis.description.projection :
                    /\ projection.monthlyAmount = call.request.amount
                    /\ projection.years = userProfile.timeHorizon

\* the steps that bring the portfolio request of the conversation forward
CallSteps == RoutePost \/ FetchFails \/ Continue

\* C17 as stated: a portfolio request that has not completed, the one waiting
\* for a provider that never answers included, can still be brought to
\* completion.
C17_HungProviderStillCompletes ==
    \A call \in portfolioCall : call.stage # "done" => ENABLED CallSteps

\* the texts of the errors behind the answers of failed requests
ErrorCauses ==
    ({answer.cause : answer \in ForeignAnswers}
       \cup {answer.error : answer \in ForeignAnswers}) \ {""}

\* C18: whatever fails during allocation, the chat message of that turn is one
\* of the two fixed apologies, the body of the route's error answer is the
\* fixed text, and no chat message or body of the route quotes the error.
C18_FailuresAnsweredGenerically ==
    /\ \A i \in 1..Len(messages) : messages[i].content \notin ErrorCauses
    /\ \A call \in portfolioCall : \A answer \in call.answer :
          /\ (\E c \in 1..Len(engineCalls) : ~engineCalls[c].result.ok) =>
                /\ answer.status = 500 /\ answer.error = "Failed to generate portfolio"
                /\ answer.data = {}
          /\ answer.status = 500 => answer.error # answer.cause
          /\ (call.stage = "done" /\ (RequestFailed(answer) \/ answer.data = {})) =>
                /\ BotMessagesOfTurn(call.turn) # {}
                /\ \A i \in BotMessagesOfTurn(call.turn) :
                      /\ messages[i].content \in
                            {"I apologize, but I couldn't generate a portfolio at this time. Please try again later.",
                             "I apologize, but I encountered an error. Please try again."}
                      /\ messages[i].content # answer.cause
                      /\ ~messages[i].isPortfolioRecommendation
                      /\ messages[i].advice = {}

\* C18 witness: the body of the answer carried an error field and the turn was
\* answered by the apology of generateBotResponse.
C18_Witness ==
    \E call \in portfolioCall : \E answer \in call.answer :
        /\ call.stage = "done"
        /\ answer.status = 200 /\ answer.error = "Upstream request timed out"
        /\ \E i \in BotMessagesOfTurn(call.turn) : messages[i].content = CouldNotGenerate

\* the number a stored amount stands for, in hundredths
StoredAmount(digits) == DigitsToNat(digits) * 100

\* C19: the request handed to the engine has age 30, riskScore 3, 5 or 8 for
\* low, medium or high, the accepted horizon, incomeNeeds exactly for the
\* answer yes, and the monthly amount for a monthly investment, the investment
\* amount otherwise.
C19_RequestFromProfile ==
    \A call \in portfolioCall :
        LET request == call.request.userProfile
        IN  /\ request.age = 30
            /\ userProfile.riskTolerance = <<"l", "o", "w">> => request.riskScore = 3
            /\ userProfile.riskTolerance = <<"m", "e", "d", "i", "u", "m">>
                  => request.riskScore = 5
            /\ userProfile.riskTolerance = <<"h", "i", "g", "h">> => request.riskScore = 8
            /\ request.riskScore \in {3, 5, 8}
            /\ request.investmentHorizon = userProfile.timeHorizon
            /\ request.incomeNeeds = (userProfile.incomeNeeds = <<"y", "e", "s">>)
            /\ call.request.amount =
                  IF userProfile.investmentType = <<"m", "o", "n", "t", "h", "l", "y">>
                  THEN StoredAmount(userProfile.monthlyAmount)
                  ELSE StoredAmount(userProfile.investmentAmount)
            /\ \A c \in 1..Len(engineCalls) : engineCalls[c].request = call.request

\* C19 witness: the engine ran on the request of a monthly investment of R5
\* with high risk tolerance, after a different investment amount was accepted.
C19_Witness ==
    \E call \in portfolioCall :
        /\ Len(engineCalls) = 1
        /\ userProfile.investmentType = Monthly
        /\ call.request.amount = 500
        /\ userProfile.investmentAmount = <<"1", "0", "0", "0", "0">>
        /\ call.request.userProfile.riskScore = 8

\* C23: the "already provided a portfolio recommendation" message is appended
\* only after a portfolio recommendation has been appended earlier in the
\* conversation: not after a failed generation, and not for a message sent
\* while the portfolio request is in flight.
C23_AlreadyProvidedFollowsRecommendation ==
    \A i \in 1..Len(messages) :
        messages[i].content = AlreadyProvided
            => \E j \in 1..(i - 1) : messages[j].isPortfolioRecommendation

(***************************************************************************)
(* Further properties of the engine, checked under SpecEngine.             *)
(***************************************************************************)

WithRiskScore(in, score) == EngineResult([in EXCEPT !.userProfile.riskScore = score])

\* the first share of equity is lower than the second
LowerEquityShare(p, q) ==
    EquityNum(p) * CommonDen(q) < EquityNum(q) * CommonDen(p)

SameEquityShare(p, q) ==
    EquityNum(p) * CommonDen(q) = EquityNum(q) * CommonDen(p)

HasLine(r, name) == \E i \in 1..Len(r.rationale) : r.rationale[i].line = name

\* C24 as stated: a rationale line that names an adjustment describes an
\* adjustment of the returned weights: with the volatility line the equity
\* share is lower than for the same request with volatility at or below 25,
\* and with a non-zero risk shift it differs from the share with riskScore 5.
C24_RationaleReflectedInWeights ==
    \A r \in eOut :
        /\ HasLine(r, "Market volatility adjustment") =>
              \A vix \in {0, 10, 25} :
                  LowerEquityShare(r.portfolio, WithVix(eIn, vix).portfolio)
        /\ (\E i \in 1..Len(r.rationale) :
               r.rationale[i].line = "Risk adjustment" /\ r.rationale[i].value # 0) =>
              ~SameEquityShare(r.portfolio, WithRiskScore(eIn, 5).portfolio)

\* C25 as stated: for ages 0..120, riskScore 1..10, any volatility index and
\* either incomeNeeds value, the equity allocation used for basket selection,
\* after the risk, volatility and income adjustments, lies within [0.10, 0.90].
C25_AdjustedEquityClamped ==
    \A r \in eOut :
        LET equity == AdjustedEquityAllocation(eIn.userProfile,
                                               getMarketConditions(eIn.quotes))
        IN  1000 <= equity /\ equity <= 9000

WithOutlook(in, outlook) ==
    generateAdvancedPortfolio(in.userProfile, in.amount, getETFData(in.failed),
                              [getMarketConditions(in.quotes)
                                   EXCEPT !.globalOutlook = outlook])

\* the request generatePortfolio sends for a complete profile with the given
\* risk tolerance
RequestWithTier(tier) ==
    PortfolioRequest([ProfileAwaiting("investmentType")
                          EXCEPT !.riskTolerance = tier, !.investmentType = OnceOff])

UserMessagesOfTurn(t) ==
    {i \in 1..Len(messages) : messages[i].role = "user" /\ messages[i].turn = t}

\* the turn has its one bot message
TurnAnswered(t) == Cardinality(BotMessagesOfTurn(t)) = 1

\* the turn has no bot message yet and its portfolio request is under way:
\* unless the request is one that never returns, a step of it can be taken
TurnAwaitsRequest(t) ==
    /\ BotMessagesOfTurn(t) = {}
    /\ \E call \in portfolioCall :
          /\ call.turn = t
          /\ call.stage \in {"sent", "waiting", "answered"}
          /\ call.stage # "waiting" => ENABLED (FetchFails \/ Continue \/ RoutePost)

\* nothing of the conversation but the typed text and the pending request's
\* own reply changes in the step
NoTurnTaken ==
    /\ sends' = sends
    /\ userProfile' = userProfile
    /\ Len(messages') >= Len(messages)
    /\ SubSeq(messages', 1, Len(messages)) = messages
    /\ \A i \in (Len(messages) + 1)..Len(messages') : messages'[i].role = "bot"

\* C28: every non-blank user message gets exactly one bot message, at once or,
\* for the message that starts the portfolio request, when the request returns
\* (whether generation succeeded or failed); until then the request can
\* proceed.  A blank or whitespace-only input appends no user message and
\* changes neither the profile nor the turn count.
C28_EveryMessageAnsweredOnce ==
    /\ [](\A t \in 1..sends :
             /\ Cardinality(UserMessagesOfTurn(t)) = 1
             /\ TurnAnswered(t) \/ TurnAwaitsRequest(t))
    /\ [][Trim(input) = <<>> => NoTurnTaken]_vars

\* C28 witness: the portfolio request failed and was answered, a later message
\* was answered too, every turn has its one bot message, and a whitespace-only
\* text sits in the input.
C28_Witness ==
    /\ input = <<" ">>
    /\ \E call \in portfolioCall :
          /\ call.stage = "done"
          /\ call.response = {}
          /\ sends > call.turn
    /\ \A t \in 1..sends : TurnAnswered(t)

\* the description of the market says high volatility
DescriptionSaysHighVolatility(r) ==
    \E i \in 1..Len(r.description.market) :
        r.description.market[i] = ", with high volatility suggesting increased uncertainty"

\* the volatility factor reports high market uncertainty
FactorSaysHighUncertainty(r) ==
    \E i \in 1..Len(r.factors) :
        /\ r.factors[i].factor = "Market Volatility (VIX)"
        /\ r.factors[i].impact = "High market uncertainty"

\* C29 as stated: the three uses of the volatility index agree: when the
\* engine applies the high-volatility dampening the description says high
\* volatility and the volatility factor reports high market uncertainty, and
\* when it does not, neither text reports high volatility.
C29_VolatilityUsesAgree ==
    \A r \in eOut :
        /\ r.highVolatility => DescriptionSaysHighVolatility(r) /\ FactorSaysHighUncertainty(r)
        /\ ~r.highVolatility => ~DescriptionSaysHighVolatility(r) /\ ~FactorSaysHighUncertainty(r)

\* C30: every instrument the engine selects, and the bond instrument, is a key
\* of ETF_SYMBOLS, so whichever lookups of getETFData fail, all of them
\* included, the engine finds an entry for each instrument and answers.
C30_SelectedInstrumentsInCatalog ==
    \A r \in eOut :
        LET basket == SelectBasket(r.outlook, eIn.userProfile.incomeNeeds)
            names  == {b.name : b \in basket} \cup {BondETF}
        IN  /\ names \subseteq ETF_SYMBOLS
            /\ names \subseteq DOMAIN getETFData(eIn.failed)
            /\ names \subseteq DOMAIN getETFData(ETF_SYMBOLS)
            /\ r.ok
            /\ DOMAIN r.portfolio = names
            /\ EngineResult([eIn EXCEPT !.failed = ETF_SYMBOLS]).ok

\* C30 witness: every lookup failed and the engine still answered with the
\* three instruments of the cautious income basket and the bond instrument.
C30_Witness ==
    \E r \in eOut :
        /\ eIn.failed = ETF_SYMBOLS
        /\ r.ok /\ r.hasQuote = {}
        /\ r.outlook = "negative" /\ eIn.userProfile.incomeNeeds
        /\ Cardinality(DOMAIN r.portfolio) = 4
====
